---- MODULE Spec2Model ----
(***************************************************************************)
(* Model of the neoercities crate: the NeocitiesClient API wrapper         *)
(* (src/src/lib.rs) and the SiteInfo file-list cache                       *)
(* (src/src/site_info.rs).                                                 *)
(*                                                                         *)
(* Strings are sequences of one-character strings, so that format!("/{}")  *)
(* and the {:02x} rendering are real computations.  A Rust Option is       *)
(* None or Some(x); the outcome of evaluating a fallible expression is     *)
(* Ok(x), Err(e) or Panic (an unwrap() on a None / Err value).             *)
(***************************************************************************)
EXTENDS Integers, Sequences, FiniteSets, TLC

VARIABLES client, pc, items, src_files, last

vars == <<client, pc, items, src_files, last>>

----------------------------------------------------------------------------
(* Bounds of the model *)

\* longest `files` array a list response carries
MaxFiles == 2

\* longest local byte sequence that is hashed
MaxLen == 1

\* number of digest bytes the modelled digest produces
DigestLen == 2

----------------------------------------------------------------------------
(* Option and outcome values *)

None == [some |-> FALSE]

Some(x) == [some |-> TRUE, v |-> x]

Ok(x) == [tag |-> "Ok", v |-> x]

Err(e) == [tag |-> "Err", e |-> e]

Panic == [tag |-> "Panic"]

----------------------------------------------------------------------------
(* serde_json::Value, as far as the parser looks at it *)

Missing == [t |-> "missing"]

JNull == [t |-> "null"]

JBool(b) == [t |-> "bool", b |-> b]

JStr(s) == [t |-> "str", s |-> s]

JNum(n) == [t |-> "num", n |-> n]

JFloat == [t |-> "float"]

JArr(a) == [t |-> "array", a |-> a]

\* Value::get(key) on an object: None when the member is absent
get(j, key) == IF j[key].t = "missing" THEN None ELSE Some(j[key])

as_str(v) == IF v.t = "str" THEN Some(v.s) ELSE None

as_bool(v) == IF v.t = "bool" THEN Some(v.b) ELSE None

\* Value::as_u64: only a non-negative integer number
as_u64(v) == IF v.t = "num" /\ v.n >= 0 THEN Some(v.n) ELSE None

as_array(v) == IF v.t = "array" THEN Some(v.a) ELSE None

----------------------------------------------------------------------------
(* Dates.  A date string is described by its format and, for RFC 2822,    *)
(* the local clock reading and the zone offset it spells (in hours).       *)

DateStr(fmt, local, off) == [fmt |-> fmt, local |-> local, off |-> off]

\* chrono::DateTime::parse_from_rfc2822
parse_from_rfc2822(s) ==
    IF s.fmt = "rfc2822" THEN Ok([local |-> s.local, off |-> s.off])
    ELSE Err("ParseError")

\* DateTime::with_timezone(&Utc): the instant, read on the UTC clock
with_timezone_utc(dt) == dt.local - dt.off

----------------------------------------------------------------------------
(* Hashing: hash_of_bytes *)

HexDigits == <<"0", "1", "2", "3", "4", "5", "6", "7",
               "8", "9", "a", "b", "c", "d", "e", "f">>

\* format!("{:02x}", b)
Hex2(b) == <<HexDigits[(b \div 16) + 1], HexDigits[(b % 16) + 1]>>

RECURSIVE Sha1Mix(_, _)
\* the digest's compression, abstracted: a deterministic fold over the bytes
Sha1Mix(bytes, acc) ==
    IF bytes = <<>> THEN acc
    ELSE Sha1Mix(Tail(bytes), (acc * 31 + Head(bytes) + 7) % 256)

\* Sha1::new(); update(bytes); finalize(): a fixed-length byte array
Sha1Digest(bytes) == [i \in 1..DigestLen |-> Sha1Mix(bytes, (211 + 17 * i) % 256)]

RECURSIVE HexOf(_)
HexOf(arr) == IF arr = <<>> THEN <<>> ELSE Hex2(Head(arr)) \o HexOf(Tail(arr))

hash_of_bytes(bytes) == HexOf(Sha1Digest(bytes))

\* fs::read(path): a local file is its bytes, or unreadable
Unreadable == [readable |-> FALSE]

LocalFile(bytes) == [readable |-> TRUE, bytes |-> bytes]

hash_of_local(f) ==
    IF f.readable THEN Ok(hash_of_bytes(f.bytes)) ELSE Err("FileError")

----------------------------------------------------------------------------
(* The entry parser *)

\* format!("/{}", raw)
SlashPath(raw) == <<"/">> \o raw

\* the `?` chain  j.get(key).ok_or(ListParseError)?.as_str().ok_or(ListParseError)?
StrField(j, key) ==
    IF ~get(j, key).some THEN Err("ListParseError")
    ELSE IF ~as_str(get(j, key).v).some THEN Err("ListParseError")
    ELSE Ok(as_str(get(j, key).v).v)

\* the updated_at field: the `?` chain, then parse_from_rfc2822(..).unwrap()
ModifiedField(j) ==
    LET s == StrField(j, "updated_at") IN
    IF s.tag # "Ok" THEN s
    ELSE IF parse_from_rfc2822(s.v).tag # "Ok" THEN Panic
    ELSE Ok(with_timezone_utc(parse_from_rfc2822(s.v).v))

SizeField(j) ==
    IF ~get(j, "size").some THEN Err("ListParseError")
    ELSE IF ~as_u64(get(j, "size").v).some THEN Err("ListParseError")
    ELSE Ok(as_u64(get(j, "size").v).v)

\* File::from_json: the fields are evaluated in the order they are written
File_from_json(j) ==
    LET p == StrField(j, "path")
        m == ModifiedField(j)
        h == StrField(j, "sha1_hash")
        s == SizeField(j)
    IN  IF p.tag # "Ok" THEN p
        ELSE IF m.tag # "Ok" THEN m
        ELSE IF h.tag # "Ok" THEN h
        ELSE IF s.tag # "Ok" THEN s
        ELSE Ok([kind |-> "File", path |-> SlashPath(p.v), modified |-> m.v,
                 sha1_hash |-> h.v, size |-> s.v])

Dir_from_json(j) ==
    LET p == StrField(j, "path")
        m == ModifiedField(j)
    IN  IF p.tag # "Ok" THEN p
        ELSE IF m.tag # "Ok" THEN m
        ELSE Ok([kind |-> "Dir", path |-> SlashPath(p.v), modified |-> m.v])

SiteItem_from_json(j) ==
    IF ~get(j, "is_directory").some THEN Err("ListParseError")
    ELSE IF ~as_bool(get(j, "is_directory").v).some THEN Err("ListParseError")
    ELSE IF as_bool(get(j, "is_directory").v).v THEN Dir_from_json(j)
    ELSE File_from_json(j)

get_path(i) == i.path

----------------------------------------------------------------------------
(* NeocitiesClient *)

new(username, password) ==
    [has_auth |-> TRUE, username |-> username, password |-> password,
     api_key |-> None]

new_with_key(key) ==
    [has_auth |-> TRUE, username |-> "", password |-> "", api_key |-> Some(key)]

new_no_auth ==
    [has_auth |-> FALSE, username |-> "", password |-> "", api_key |-> None]

Clients == {new("user", "pass"), new_with_key("key"), new_no_auth}

\* get_auth without the has_auth test: credentials are attached regardless
get_auth_unchecked(c) ==
    IF c.api_key.some THEN Ok([auth |-> "bearer", key |-> c.api_key.v])
    ELSE Ok([auth |-> "basic", username |-> c.username, password |-> c.password])

\* get_auth: the request with its credentials attached, or AuthError
get_auth(c) ==
    IF ~c.has_auth THEN Err("AuthError")
    ELSE IF c.api_key.some THEN Ok([auth |-> "bearer", key |-> c.api_key.v])
    ELSE Ok([auth |-> "basic", username |-> c.username, password |-> c.password])

\* what send()?.text()? can give: a transport failure or the response body
SendOutcomes(bodies) == {Err("RequestError")} \cup {Ok(b) : b \in bodies}

\* a call's value and the number of HTTP requests it sent
Call(res, reqs) == [res |-> res, reqs |-> reqs]

\* get(endpoint): get_auth(..)?.send()?.text()?
Client_get(c, net) ==
    IF get_auth(c).tag # "Ok" THEN Call(get_auth(c), 0) ELSE Call(net, 1)

info(c, net) == Client_get(c, net)

\* info_no_auth: the request is sent raw, get_auth is not consulted
info_no_auth(c, net) == Call(net, 1)

list_all(c, net) == Client_get(c, net)

list(c, net) == Client_get(c, net)

get_key(c, net) == Client_get(c, net)

\* upload_bytes_multiple: builds the form, then get_auth(..)?.send()?.text()?
upload_bytes_multiple(c, net) ==
    IF get_auth(c).tag # "Ok" THEN Call(get_auth(c), 0) ELSE Call(net, 1)

upload_bytes(c, net) == upload_bytes_multiple(c, net)

\* upload_multiple: read(local)? for every pair, then upload_bytes_multiple
upload_multiple(c, locals, net) ==
    IF \E i \in 1..Len(locals) : ~locals[i].readable
    THEN Call(Err("FileError"), 0)
    ELSE upload_bytes_multiple(c, net)

upload(c, local, net) == upload_multiple(c, <<local>>, net)

\* delete_multiple: get_auth(..)? first, then the query pairs and send
delete_multiple(c, net) ==
    IF get_auth(c).tag # "Ok" THEN Call(get_auth(c), 0) ELSE Call(net, 1)

delete(c, net) == delete_multiple(c, net)

----------------------------------------------------------------------------
(* SiteInfo *)

RECURSIVE ParseEntries(_, _)
\* the loop of refresh: push every parsed entry, leave at the first failure
ParseEntries(files, acc) ==
    IF files = <<>> THEN Ok(acc)
    ELSE LET r == SiteItem_from_json(Head(files)) IN
         IF r.tag # "Ok" THEN r
         ELSE ParseEntries(Tail(files), Append(acc, r.v))

\* from_str::<Value>(text).unwrap(), .get("files").unwrap().as_array().unwrap()
FilesOf(body) ==
    IF ~body.json THEN Panic
    ELSE IF ~get(body, "files").some THEN Panic
    ELSE IF ~as_array(get(body, "files").v).some THEN Panic
    ELSE Ok(as_array(get(body, "files").v).v)

\* refresh pushing onto self.items instead of a fresh vector
refresh_merging(c, its, net) ==
    LET l == list_all(c, net)
        f == FilesOf(l.res.v)
        p == ParseEntries(f.v, its)
    IN  IF l.res.tag # "Ok" THEN [res |-> l.res, items |-> its, reqs |-> l.reqs,
              gateway |-> <<"list_all">>]
        ELSE IF f.tag # "Ok" THEN [res |-> f, items |-> its, reqs |-> l.reqs,
              gateway |-> <<"list_all">>]
        ELSE IF p.tag # "Ok" THEN [res |-> p, items |-> its, reqs |-> l.reqs,
              gateway |-> <<"list_all">>]
        ELSE [res |-> Ok("unit"), items |-> p.v, reqs |-> l.reqs,
              gateway |-> <<"list_all">>]

\* refresh calling list_all a second time when the first call fails
refresh_retrying(c, its, net) ==
    LET l == list_all(c, net)
        f == FilesOf(l.res.v)
        p == ParseEntries(f.v, <<>>)
    IN  IF l.res.tag # "Ok"
        THEN [res |-> l.res, items |-> its, reqs |-> l.reqs + list_all(c, net).reqs,
              gateway |-> <<"list_all", "list_all">>]
        ELSE IF f.tag # "Ok" THEN [res |-> f, items |-> its, reqs |-> l.reqs,
              gateway |-> <<"list_all">>]
        ELSE IF p.tag # "Ok" THEN [res |-> p, items |-> its, reqs |-> l.reqs,
              gateway |-> <<"list_all">>]
        ELSE [res |-> Ok("unit"), items |-> p.v, reqs |-> l.reqs,
              gateway |-> <<"list_all">>]

\* refresh: the outcome, the items it leaves, the HTTP requests it sent and
\* the client methods it called
refresh(c, its, net) ==
    LET l == list_all(c, net)
        f == FilesOf(l.res.v)
        p == ParseEntries(f.v, <<>>)
    IN  IF l.res.tag # "Ok" THEN [res |-> l.res, items |-> its, reqs |-> l.reqs,
              gateway |-> <<"list_all">>]
        ELSE IF f.tag # "Ok" THEN [res |-> f, items |-> its, reqs |-> l.reqs,
              gateway |-> <<"list_all">>]
        ELSE IF p.tag # "Ok" THEN [res |-> p, items |-> its, reqs |-> l.reqs,
              gateway |-> <<"list_all">>]
        ELSE [res |-> Ok("unit"), items |-> p.v, reqs |-> l.reqs,
              gateway |-> <<"list_all">>]

RECURSIVE get_item_last(_, _)
\* get_item without the early return: the last item whose path is `path`
get_item_last(its, path) ==
    IF its = <<>> THEN None
    ELSE IF get_path(its[Len(its)]) = path THEN Some(its[Len(its)])
    ELSE get_item_last(SubSeq(its, 1, Len(its) - 1), path)

RECURSIVE get_item(_, _)
\* the first item, in sequence order, whose path is `path`
get_item(its, path) ==
    IF its = <<>> THEN None
    ELSE IF get_path(Head(its)) = path THEN Some(Head(its))
    ELSE get_item(Tail(its), path)

get_file(its, path) ==
    LET i == get_item(its, path) IN
    IF i.some /\ i.v.kind = "File" THEN Some(i.v) ELSE None

\* get_dir without the variant match
get_dir_any(its, path) == get_item(its, path)

get_dir(its, path) ==
    LET i == get_item(its, path) IN
    IF i.some /\ i.v.kind = "Dir" THEN Some(i.v) ELSE None

item_exists_on_site(its, path) == get_item(its, path).some

file_exists_on_site(its, path) == get_file(its, path).some

dir_exists_on_site(its, path) == get_dir(its, path).some

file_changed(its, local, remote_path) ==
    LET f == get_file(its, remote_path) IN
    IF f.some
    THEN IF hash_of_local(local).tag # "Ok" THEN hash_of_local(local)
         ELSE Ok(hash_of_local(local).v # f.v.sha1_hash)
    ELSE Ok(TRUE)

\* bytes_changed with the comparison inverted: a hash match counts as a change
bytes_changed_inverted(its, bytes, remote_path) ==
    LET f == get_file(its, remote_path) IN
    IF f.some THEN hash_of_bytes(bytes) = f.v.sha1_hash ELSE TRUE

bytes_changed(its, bytes, remote_path) ==
    LET f == get_file(its, remote_path) IN
    IF f.some THEN hash_of_bytes(bytes) # f.v.sha1_hash ELSE TRUE

----------------------------------------------------------------------------
(* The inputs the environment can supply *)

RECURSIVE SeqsUpTo(_, _)
\* every sequence over S of length at most n
SeqsUpTo(S, n) ==
    IF n = 0 THEN {<<>>}
    ELSE LET shorter == SeqsUpTo(S, n - 1) IN
         shorter \cup {Append(q, x) : q \in {t \in shorter : Len(t) = n - 1}, x \in S}

ByteSeqs == SeqsUpTo({0, 1}, MaxLen)

LocalFiles == {Unreadable} \cup {LocalFile(b) : b \in ByteSeqs}

\* "Mon, 01 Jan 2024 01:00:00 +0100"
GoodDate == DateStr("rfc2822", 1, 1)

\* "2024-01-01T00:00:00Z": a date, but not an RFC 2822 one
BadDate == DateStr("iso8601", 0, 0)

Record(d, p, u, h, s) ==
    [is_directory |-> d, path |-> p, updated_at |-> u, sha1_hash |-> h, size |-> s]

FileRecord(raw, hash) ==
    Record(JBool(FALSE), JStr(raw), JStr(GoodDate), JStr(hash), JNum(0))

\* the service reports no hash and no size for a directory
DirRecord(raw) == Record(JBool(TRUE), JStr(raw), JStr(GoodDate), Missing, Missing)

\* the records a list response of the catalog specification is built from
ListRecords ==
    { FileRecord(<<"a">>, hash_of_bytes(<<>>)),
      FileRecord(<<"A">>, hash_of_bytes(<<>>)),
      DirRecord(<<"a">>),
      Record(JBool(FALSE), JStr(<<"a">>), JStr(GoodDate), Missing, JNum(0)),
      Record(JBool(FALSE), JStr(<<"a">>), JStr(BadDate), JStr(hash_of_bytes(<<>>)), JNum(0)) }

NotJson == [json |-> FALSE]

Document(files) == [json |-> TRUE, files |-> files]

ListBodies ==
    {NotJson, Document(Missing), Document(JNull)}
        \cup {Document(JArr(f)) : f \in SeqsUpTo(ListRecords, MaxFiles)}

\* the paths the catalog is asked about
ProbePaths == {<<"/", "a">>, <<"/", "A">>, <<"a">>}

\* what list_all's send()?.text()? can give
ListOutcomes == SendOutcomes(ListBodies)

\* what any other call's send()?.text()? can give
TextOutcomes == SendOutcomes({"body"})

\* "Mon, 01 Jan 2024 00:00:00 +0000": the same instant as GoodDate
UtcDate == DateStr("rfc2822", 0, 0)

\* the records the parser specification feeds the entry parser
ParseRecords ==
    { Record(d, p, u, h, z) :
        d \in {Missing, JNull, JBool(TRUE), JBool(FALSE)},
        p \in {Missing, JNum(1), JStr(<<"a">>), JStr(<<"/", "a">>)},
        u \in {Missing, JNum(0), JStr(GoodDate), JStr(UtcDate), JStr(BadDate)},
        h \in {Missing, JNum(0), JStr(hash_of_bytes(<<>>))},
        z \in {Missing, JStr(<<"0">>), JNum(0), JNum(-1), JFloat} }

----------------------------------------------------------------------------
(* The record schema of the list endpoint, as the service documents it     *)

IsRfc2822(s) == s.fmt = "rfc2822"

\* a required field is missing or has the wrong JSON type
SchemaFault(j) ==
    \/ j.is_directory.t # "bool"
    \/ j.path.t # "str"
    \/ j.updated_at.t # "str"
    \/ /\ ~j.is_directory.b
       /\ \/ j.sha1_hash.t # "str"
          \/ j.size.t # "num"
          \/ j.size.n < 0

\* updated_at is a string, but not an RFC 2822 date
DateFault(j) == j.updated_at.t = "str" /\ ~IsRfc2822(j.updated_at.s)

Malformed(j) == SchemaFault(j) \/ DateFault(j)

RECURSIVE FirstBadFrom(_, _)
FirstBadFrom(files, i) ==
    IF i > Len(files) THEN 0
    ELSE IF Malformed(files[i]) THEN i
    ELSE FirstBadFrom(files, i + 1)

\* index of the first malformed record of a files array, 0 when there is none
FirstBad(files) == FirstBadFrom(files, 1)

\* what kind of answer list_all got: the part of it the call's record keeps
Shape(net) ==
    IF net.tag # "Ok" THEN [class |-> "network"]
    ELSE IF ~net.v.json THEN [class |-> "notjson"]
    ELSE IF net.v.files.t = "missing" THEN [class |-> "nofiles"]
    ELSE IF net.v.files.t # "array" THEN [class |-> "notarray"]
    ELSE [class |-> "files", n |-> Len(net.v.files.a),
          bad |-> FirstBad(net.v.files.a),
          dated |-> \E i \in 1..Len(net.v.files.a) : DateFault(net.v.files.a[i])]

----------------------------------------------------------------------------
(* The catalog state machine.  pc is "none" while no SiteInfo exists,      *)
(* "live" while one does, "crashed" once a panic has unwound the caller.   *)
(* src_files is the `files` array the items were last parsed from; last    *)
(* records the latest call, its arguments and what it returned.  For new   *)
(* and refresh it keeps the shape of the answer, how many items the call   *)
(* found, and, when the call did not succeed, the items it found.          *)

Init ==
    /\ client \in Clients
    /\ pc = "none"
    /\ items = <<>>
    /\ src_files = <<>>
    /\ last = [op |-> "init"]

AfterRefresh(op, net, r, before) ==
    /\ last' = [op |-> op, net |-> Shape(net), res |-> r.res, reqs |-> r.reqs,
                gateway |-> r.gateway,
                had |-> Len(before),
                before |-> IF r.res.tag = "Ok" THEN <<>> ELSE before]
    /\ src_files' = IF r.res.tag = "Ok" THEN net.v.files.a ELSE src_files

\* SiteInfo::new(client)
New ==
    /\ pc = "none"
    /\ \E net \in ListOutcomes :
         \E r \in {refresh(client, <<>>, net)} :
         /\ pc' = IF r.res.tag = "Ok" THEN "live"
                  ELSE IF r.res.tag = "Panic" THEN "crashed" ELSE "none"
         /\ items' = IF r.res.tag = "Ok" THEN r.items ELSE <<>>
         /\ AfterRefresh("new", net, r, <<>>)
    /\ UNCHANGED client

\* SiteInfo::refresh(&mut self)
Refresh ==
    /\ pc = "live"
    /\ \E net \in ListOutcomes :
         \E r \in {refresh(client, items, net)} :
         /\ pc' = IF r.res.tag = "Panic" THEN "crashed" ELSE pc
         /\ items' = r.items
         /\ AfterRefresh("refresh", net, r, items)
    /\ UNCHANGED client

\* the &self methods: none of them touches self.client
Query(rec) ==
    /\ pc = "live"
    /\ last' = rec @@ [reqs |-> 0, gateway |-> <<>>]
    /\ UNCHANGED <<client, pc, items, src_files>>

GetItem == \E p \in ProbePaths :
    Query([op |-> "get_item", path |-> p, res |-> get_item(items, p)])

GetFile == \E p \in ProbePaths :
    Query([op |-> "get_file", path |-> p, res |-> get_file(items, p)])

GetDir == \E p \in ProbePaths :
    Query([op |-> "get_dir", path |-> p, res |-> get_dir(items, p)])

ItemExists == \E p \in ProbePaths :
    Query([op |-> "item_exists_on_site", path |-> p,
           res |-> item_exists_on_site(items, p)])

FileExists == \E p \in ProbePaths :
    Query([op |-> "file_exists_on_site", path |-> p,
           res |-> file_exists_on_site(items, p)])

DirExists == \E p \in ProbePaths :
    Query([op |-> "dir_exists_on_site", path |-> p,
           res |-> dir_exists_on_site(items, p)])

FileChanged == \E f \in LocalFiles, p \in ProbePaths :
    Query([op |-> "file_changed", local |-> f, path |-> p,
           res |-> file_changed(items, f, p)])

BytesChanged == \E b \in ByteSeqs, p \in ProbePaths :
    Query([op |-> "bytes_changed", bytes |-> b, path |-> p,
           res |-> bytes_changed(items, b, p)])

Next ==
    \/ New
    \/ Refresh
    \/ GetItem
    \/ GetFile
    \/ GetDir
    \/ ItemExists
    \/ FileExists
    \/ DirExists
    \/ FileChanged
    \/ BytesChanged

Spec == Init /\ [][Next]_vars

----------------------------------------------------------------------------
(* The entry parser on its own: one record in, one outcome out *)

InitParse ==
    /\ client = new_no_auth
    /\ pc = "parse"
    /\ items = <<>>
    /\ src_files = <<>>
    /\ \E j \in ParseRecords : last = [op |-> "record", j |-> j]

FromJson ==
    /\ pc = "parse"
    /\ last.op = "record"
    /\ last' = [op |-> "from_json", j |-> last.j, res |-> SiteItem_from_json(last.j)]
    /\ UNCHANGED <<client, pc, items, src_files>>

NextParse == FromJson

SpecParse == InitParse /\ [][NextParse]_vars

----------------------------------------------------------------------------
(* The client on its own: any method, on any kind of client *)

InitClient ==
    /\ client \in Clients
    /\ pc = "client"
    /\ items = <<>>
    /\ src_files = <<>>
    /\ last = [op |-> "init"]

Method(op, locals, call) ==
    /\ pc = "client"
    /\ last' = [op |-> op, locals |-> locals, res |-> call.res, reqs |-> call.reqs]
    /\ UNCHANGED <<client, pc, items, src_files>>

Info == \E net \in TextOutcomes : Method("info", <<>>, info(client, net))

InfoNoAuth == \E net \in TextOutcomes :
    Method("info_no_auth", <<>>, info_no_auth(client, net))

ListAll == \E net \in TextOutcomes : Method("list_all", <<>>, list_all(client, net))

List == \E net \in TextOutcomes : Method("list", <<>>, list(client, net))

GetKey == \E net \in TextOutcomes : Method("get_key", <<>>, get_key(client, net))

Upload == \E net \in TextOutcomes, f \in LocalFiles :
    Method("upload", <<f>>, upload(client, f, net))

UploadMultiple == \E net \in TextOutcomes, fs \in SeqsUpTo(LocalFiles, MaxFiles) :
    Method("upload_multiple", fs, upload_multiple(client, fs, net))

UploadBytes == \E net \in TextOutcomes :
    Method("upload_bytes", <<>>, upload_bytes(client, net))

UploadBytesMultiple == \E net \in TextOutcomes :
    Method("upload_bytes_multiple", <<>>, upload_bytes_multiple(client, net))

Delete == \E net \in TextOutcomes : Method("delete", <<>>, delete(client, net))

DeleteMultiple == \E net \in TextOutcomes :
    Method("delete_multiple", <<>>, delete_multiple(client, net))

NextClient ==
    \/ Info
    \/ InfoNoAuth
    \/ ListAll
    \/ List
    \/ GetKey
    \/ Upload
    \/ UploadMultiple
    \/ UploadBytes
    \/ UploadBytesMultiple
    \/ Delete
    \/ DeleteMultiple

SpecClient == InitClient /\ [][NextClient]_vars

----------------------------------------------------------------------------
(* Properties *)

Min(S) == CHOOSE x \in S : \A y \in S : x <= y

\* the positions of the entries stored under path p
Holders(its, p) == {i \in 1..Len(its) : its[i].path = p}

\* the positions of the records of a files array whose "/"-prefixed path is p
SourcesOf(files, p) == {i \in 1..Len(files) : <<"/">> \o files[i].path.s = p}

Loaded == last.op \in {"new", "refresh"}

\* C1: a refresh that fails, because list_all returns a network error or the
\* response holds a malformed entry at some index, returns an error and leaves
\* the stored entries, and so every lookup, as they were before the call.
C1_FailedRefreshKeepsCatalog ==
    (/\ last.op = "refresh"
     /\ \/ last.net.class = "network"
        \/ last.net.class = "files" /\ last.net.bad > 0)
    => /\ last.res.tag = "Err"
       /\ items = last.before
       /\ \A p \in ProbePaths : get_item(items, p) = get_item(last.before, p)

\* C2: bytes_changed(bytes, path) is false exactly when the entry held at path
\* (the first one, should several share it) is a File whose stored hash equals
\* hash(bytes); it is true when the path is absent, held by a Dir, or the
\* hashes differ.
C2_BytesChangedIffHashDiffers ==
    last.op = "bytes_changed"
    => (last.res = FALSE
        <=> /\ Holders(items, last.path) # {}
            /\ items[Min(Holders(items, last.path))].kind = "File"
            /\ items[Min(Holders(items, last.path))].sha1_hash
                   = hash_of_bytes(last.bytes))

C2_Witness ==
    /\ last.op = "bytes_changed"
    /\ last.res = FALSE
    /\ Len(items) = 2
    /\ items[1].kind = "File"

\* C3: a record with a required field missing or of the wrong JSON type makes
\* the entry parser return ListParseError: no entry, no default, no panic.
C3_SchemaFaultIsParseError ==
    (last.op = "from_json" /\ SchemaFault(last.j))
    => last.res = Err("ListParseError")

\* C4: a record whose updated_at is a string that is no RFC 2822 date makes
\* the entry parser return ListParseError as a value: no panic, no default
\* timestamp.
C4_BadDateIsParseError ==
    (last.op = "from_json" /\ DateFault(last.j))
    => last.res = Err("ListParseError")

\* C5: a list response that is malformed as a document (no JSON, no `files`
\* member, `files` not an array) makes new and refresh return ListParseError;
\* the process does not crash and the catalog is not touched.
C5_MalformedDocumentIsError ==
    (Loaded /\ last.net.class \in {"notjson", "nofiles", "notarray"})
    => /\ last.res = Err("ListParseError")
       /\ pc # "crashed"
       /\ items = last.before

\* C6: a well-formed files array is always loaded, and after a successful new
\* or refresh the items are the array's records, one for one and in order:
\* the i-th item has path "/" + the i-th raw path and the variant its
\* is_directory flag selects; nothing of the previous items remains.
C6_LoadInstallsArray ==
    /\ (Loaded /\ client.has_auth /\ last.net.class = "files" /\ last.net.bad = 0)
       => last.res.tag = "Ok"
    /\ (Loaded /\ last.res.tag = "Ok")
       => /\ Len(items) = Len(src_files)
          /\ Len(items) = last.net.n
          /\ \A i \in 1..Len(items) :
               /\ items[i].path = <<"/">> \o src_files[i].path.s
               /\ items[i].kind = IF src_files[i].is_directory.b THEN "Dir" ELSE "File"
               /\ items[i].kind = "File"
                  => items[i].sha1_hash = src_files[i].sha1_hash.s

C6_Witness ==
    /\ last.op = "refresh"
    /\ last.res.tag = "Ok"
    /\ last.had = 2
    /\ Len(items) = 1

\* C7: file_changed with an unreadable local file fails with the local I/O
\* error, also when no File is stored at the remote path; with a readable
\* file it is true when the File is absent or its hash differs from the local
\* one, and false only when the File exists and the hashes are equal.
C7_FileChangedReadsLocalFirst ==
    last.op = "file_changed"
    => IF ~last.local.readable THEN last.res = Err("FileError")
       ELSE /\ last.res.tag = "Ok"
            /\ last.res.v = FALSE
               <=> /\ Holders(items, last.path) # {}
                   /\ items[Min(Holders(items, last.path))].kind = "File"
                   /\ items[Min(Holders(items, last.path))].sha1_hash
                          = hash_of_bytes(last.local.bytes)

\* C8: on a client without authentication every method but info_no_auth
\* returns an error, whatever the network and the local files do, so
\* info_no_auth is the only call that can succeed; a client with a key or
\* with a username and password never gets AuthError.
C8_NoAuthOnlyInfoNoAuth ==
    last.op # "init"
    => /\ (~client.has_auth /\ last.op # "info_no_auth") => last.res.tag = "Err"
       /\ (~client.has_auth /\ last.res.tag = "Ok") => last.op = "info_no_auth"
       /\ client.has_auth => last.res # Err("AuthError")

C8_Witness ==
    /\ ~client.has_auth
    /\ last.op = "upload_multiple"
    /\ Len(last.locals) = 2
    /\ last.res = Err("AuthError")

\* C9: get_item(p) on a loaded catalog returns an entry, with path exactly p,
\* when p is "/" + the raw path of some record of the source array, and None
\* otherwise (so None for a raw path without its "/"); when several records
\* give p, the entry returned is the one of the first of them.
C9_LookupExactFirstMatch ==
    last.op = "get_item"
    => IF SourcesOf(src_files, last.path) = {} THEN last.res = None
       ELSE /\ last.res.some
            /\ last.res.v.path = last.path
            /\ last.res.v.kind =
                 IF src_files[Min(SourcesOf(src_files, last.path))].is_directory.b
                 THEN "Dir" ELSE "File"

C9_Witness ==
    /\ last.op = "get_item"
    /\ last.res.some
    /\ Len(src_files) = 2
    /\ src_files[1].path = src_files[2].path
    /\ src_files[1].is_directory # src_files[2].is_directory

\* C10: get_file returns only a File stored at the path and get_dir only a
\* Dir stored at the path; each returns None when the path is absent or held
\* by the other variant; so item_exists_on_site is file_exists_on_site or
\* dir_exists_on_site, and the last two are never both true.
C10_VariantLookups ==
    /\ last.op \in {"get_file", "get_dir"}
       => /\ last.res.some
             => /\ last.res.v.path = last.path
                /\ last.res.v.kind = IF last.op = "get_file" THEN "File" ELSE "Dir"
          /\ Holders(items, last.path) = {} => last.res = None
          /\ (/\ Holders(items, last.path) # {}
              /\ items[Min(Holders(items, last.path))].kind
                    # (IF last.op = "get_file" THEN "File" ELSE "Dir"))
             => last.res = None
    /\ \A p \in ProbePaths :
          /\ item_exists_on_site(items, p)
                = (file_exists_on_site(items, p) \/ dir_exists_on_site(items, p))
          /\ ~(file_exists_on_site(items, p) /\ dir_exists_on_site(items, p))

C10_Witness ==
    /\ last.op = "get_file"
    /\ last.res = None
    /\ item_exists_on_site(items, last.path)
    /\ dir_exists_on_site(items, last.path)

QueryOps ==
    {"get_item", "get_file", "get_dir", "item_exists_on_site",
     "file_exists_on_site", "dir_exists_on_site", "file_changed", "bytes_changed"}

\* C11: in every run, each new and each refresh makes exactly one list_all
\* call on the client, whether it succeeds or fails, and a network error of
\* that call is what the caller gets (no second attempt); get_item, get_file,
\* get_dir, the three exists predicates, file_changed and bytes_changed make
\* no client call, send no request and leave the items as they are.
C11_OneListCallPerLoad ==
    [][ /\ last'.op \in {"new", "refresh"}
           => /\ last'.gateway = <<"list_all">>
              /\ last'.reqs <= 1
              /\ (last'.reqs = 1 /\ last'.net.class = "network")
                 => last'.res = Err("RequestError")
        /\ last'.op \in QueryOps
           => /\ last'.gateway = <<>>
              /\ last'.reqs = 0
              /\ items' = items
              /\ src_files' = src_files ]_vars

C11_Witness ==
    /\ last.op = "refresh"
    /\ last.res = Err("RequestError")
    /\ last.gateway = <<"list_all">>
    /\ last.had = 2

====
